---- MODULE Spec2Model ----
(***************************************************************************)
(* Model of etl.py: the batch pipeline that derives the songs, artists,    *)
(* users, time and songplays tables from catalog and event records.        *)
(*                                                                         *)
(* A table is a sequence of rows (a row is a function from column names to *)
(* values), so that duplicate rows are representable and drop_duplicates   *)
(* has something to do.  The output root is a function from the five      *)
(* destination paths to what is stored there.  Each call of an entry point *)
(* (main, process_song_data, process_log_data) is one action; the stages   *)
(* it went through are recorded in trace, and the calls so far in runs.    *)
(*                                                                         *)
(* Exceptions are modelled as Python raises them: a stage that raises      *)
(* ends the function, and main does not catch anything.                    *)
(***************************************************************************)
EXTENDS Integers, Sequences, FiniteSets, TLC

VARIABLES catalog, log, store, trace, runs

vars == <<catalog, log, store, trace, runs>>

\* Bounds of the model.
MaxSongFiles == 2
MaxLogEvents == 2
MaxRuns == 2

----------------------------------------------------------------------------
\* Paths (main, lines 146-147; the concatenations in the two transformers).

input_data == "s3a://udacity-dend/"
output_data == "s3a://udacity-dend-project4-neagan"

song_data == input_data \o "song_data/*/*/*/*.json"
log_data == input_data \o "log_data/*/*/*.json"

songs_output_location == output_data \o "/songs/songs.parquet"
artists_output_location == output_data \o "/artists/artists.parquet"
users_output_location_shared == output_data \o "/songs/songs.parquet"
users_output_location == output_data \o "/users.parquet"
time_output_location == output_data \o "/time.parquet"
songplays_output_location == output_data \o "/songplays.parquet"

\* The arguments of spark.read.parquet at line 118: two paths, not one.
song_df_paths == {output_data, "/songs/songs.parquet"}

OutputPaths ==
  {songs_output_location, artists_output_location, users_output_location,
   time_output_location, songplays_output_location}

----------------------------------------------------------------------------
\* Columns selected for each table.

SongsColumns == {"song_id", "title", "artist_id", "year", "duration"}
ArtistsColumns ==
  {"artist_id", "artist_name", "artist_location", "artist_latitude",
   "artist_longitude"}
UsersColumns == {"userId", "firstName", "lastName", "gender", "level"}
TimeColumns == {"start_time", "hour", "day", "week", "month", "year", "weekday"}
SongplaysColumns ==
  {"songplay_id", "start_time", "userId", "level", "song_id", "artist_id",
   "sessionId", "location", "userAgent"}

ColumnsOf(path) ==
  IF path = songs_output_location THEN SongsColumns
  ELSE IF path = artists_output_location THEN ArtistsColumns
  ELSE IF path = users_output_location THEN UsersColumns
  ELSE IF path = time_output_location THEN TimeColumns
  ELSE SongplaysColumns

----------------------------------------------------------------------------
\* Input records the model draws from.

CatalogRecord(sid, title, aid, name) ==
  [song_id |-> sid, title |-> title, artist_id |-> aid, year |-> 2000,
   duration |-> 180, artist_name |-> name, artist_location |-> "L",
   artist_latitude |-> 1, artist_longitude |-> 2]

CatalogRecords ==
  { CatalogRecord("S1", "T1", "A1", "N1"),
    CatalogRecord("S1", "T2", "A1", "N1"),
    CatalogRecord("S2", "T1", "A2", "N2") }

EventRecord(uid, level, page, ts, artist) ==
  [userId |-> uid, firstName |-> "A", lastName |-> "B", gender |-> "F",
   level |-> level, page |-> page, ts |-> ts, artist |-> artist,
   song |-> "T1", sessionId |-> 5, location |-> "X", userAgent |-> "UA"]

EventRecords ==
  { EventRecord("7", "free", "NextSong", 1000, "N1"),
    EventRecord("7", "paid", "Home", 2000, "N1"),
    EventRecord("8", "free", "NextSong", 2000, "A1") }

SeqsUpTo(S, n) == UNION { [1..k -> S] : k \in 0..n }

----------------------------------------------------------------------------
\* What is stored at a destination path.

Absent == [exists |-> FALSE, rows |-> <<>>]
Stored(rows) == [exists |-> TRUE, rows |-> rows]

NumericColumns ==
  {"year", "duration", "artist_latitude", "artist_longitude", "sessionId",
   "songplay_id", "start_time", "hour", "day", "week", "month", "weekday"}

\* A row left at a destination by an earlier, unrelated execution.
StaleRow(cols) ==
  [c \in cols |-> IF c \in NumericColumns THEN 0 ELSE "old"]

FreshRoot == [p \in OutputPaths |-> Absent]
StaleRoot == [p \in OutputPaths |-> Stored(<<StaleRow(ColumnsOf(p))>>)]

----------------------------------------------------------------------------
\* The record source/sink operations the transformers use.

\* df[cols]: projection of every row on cols.
select(df, cols) ==
  [i \in 1..Len(df) |-> [c \in cols |-> df[i][c]]]

RECURSIVE DropDup(_, _)
DropDup(t, acc) ==
  IF t = <<>> THEN acc
  ELSE IF \E j \in 1..Len(acc) : acc[j] = Head(t)
       THEN DropDup(Tail(t), acc)
       ELSE DropDup(Tail(t), Append(acc, Head(t)))

drop_duplicates_none(t) == t

\* DataFrame.drop_duplicates(): one row of each class of rows equal on
\* all columns.
drop_duplicates(t) == DropDup(t, <<>>)

RECURSIVE Filter(_, _)
Filter(t, acc) ==
  IF t = <<>> THEN acc
  ELSE IF Head(t).page = "NextSong"
       THEN Filter(Tail(t), Append(acc, Head(t)))
       ELSE Filter(Tail(t), acc)

filter_page_all(df) == df

\* df.filter(df['page'] == "NextSong")
filter_page(df) == Filter(df, <<>>)

\* The state a function threads through its stages.
Raise(st, fn, exc) ==
  [st EXCEPT !.exc = exc,
             !.trace = Append(@, [fn |-> fn, op |-> "raise", arg |-> exc])]

Note(st, fn, op, arg) ==
  [st EXCEPT !.trace = Append(@, [fn |-> fn, op |-> op, arg |-> arg])]

\* An exception raised by an earlier stage is still propagating.
Raised(st) == st.exc # "none"

\* spark.read.json(glob): fails when the source fails or nothing matches.
read_json(st, fn, glob, records) ==
  IF Raised(st) THEN st
  ELSE IF "source" \in st.faults \/ records = <<>>
  THEN Raise(st, fn, "SourceReadError")
  ELSE Note(st, fn, "read", glob)

\* DataFrameWriter.parquet(path), called with no mode set: the default
\* save mode refuses an existing destination; otherwise the rows are
\* stored.  The call returns None.
DataFrameWriter_parquet(st, fn, table, path) ==
  LET a == Note(st, fn, "attempt", path) IN
  IF Raised(st) THEN st
  ELSE IF "sink" \in st.faults THEN Raise(a, fn, "SinkWriteError")
  ELSE IF st.store[path].exists
       THEN Raise(Note(a, fn, "rejected", path), fn, "AnalysisException")
       ELSE Note([a EXCEPT !.store[path] = Stored(table)], fn, "write", path)

\* .mode("overwrite") applied to the None that parquet() returned.
NoneType_mode(st, fn) ==
  IF Raised(st) THEN st ELSE Raise(st, fn, "AttributeError")

\* <table>.write[.partitionBy(...)].parquet(path).mode("overwrite")
write_stage(st, fn, table, path) ==
  NoneType_mode(DataFrameWriter_parquet(st, fn, table, path), fn)

----------------------------------------------------------------------------
\* process_song_data

songs_table(df) == drop_duplicates(select(df, SongsColumns))
artists_table(df) == drop_duplicates(select(df, ArtistsColumns))

process_song_data_body(st, df) ==
  LET fn == "process_song_data"
      s1 == read_json(st, fn, song_data, df)
      s2 == write_stage(s1, fn, songs_table(df), songs_output_location)
      s3 == write_stage(s2, fn, artists_table(df), artists_output_location)
  IN s3

----------------------------------------------------------------------------
\* process_log_data

users_table(df) == drop_duplicates(select(df, UsersColumns))

\* Line 99: udf(..., dataType=TimestampType()).  TimestampType is not
\* imported, so evaluating the argument raises NameError on every
\* execution; lines 100-131 are never entered.
get_timestamp(st, fn) ==
  IF Raised(st) THEN st ELSE Raise(st, fn, "NameError")

PathExists(root, p) ==
  \/ p \in DOMAIN root /\ root[p].exists
  \/ p = output_data /\ \E q \in DOMAIN root : root[q].exists

\* spark.read.parquet(*paths): every path must exist; the result holds the
\* rows found under the paths that are tables of the output root.
read_parquet(root, paths) ==
  IF \E p \in paths : ~PathExists(root, p)
  THEN [exc |-> "AnalysisException", rows |-> <<>>]
  ELSE IF paths \subseteq DOMAIN root /\ Cardinality(paths) = 1
       THEN [exc |-> "none", rows |-> root[CHOOSE p \in paths : TRUE].rows]
       ELSE [exc |-> "AssertionError", rows |-> <<>>]

\* Line 118: song_df = spark.read.parquet(output_data, "/songs/songs.parquet")
song_df(root) == read_parquet(root, song_df_paths)

process_log_data_body(st, events) ==
  LET fn == "process_log_data"
      s1 == read_json(st, fn, log_data, events)
      df == filter_page(events)
      s2 == write_stage(s1, fn, users_table(df), users_output_location)
      s3 == get_timestamp(s2, fn)
  IN s3

----------------------------------------------------------------------------
\* main: process_song_data, then process_log_data; nothing is caught.

main_body(st, songs, events) ==
  process_log_data_body(process_song_data_body(st, songs), events)

----------------------------------------------------------------------------
\* The state machine.

\* What the environment can do to one call: nothing, fail the reads, or
\* fail the writes.
Faults == { {}, {"source"}, {"sink"} }

Enter(faults) ==
  [store |-> store, trace |-> <<>>, exc |-> "none", faults |-> faults]

Finish(entry, faults, st) ==
  /\ store' = st.store
  /\ trace' = st.trace
  /\ runs' = Append(runs, [entry |-> entry, faults |-> faults,
                           exc |-> st.exc, store |-> st.store])
  /\ UNCHANGED <<catalog, log>>

Init ==
  /\ catalog \in SeqsUpTo(CatalogRecords, MaxSongFiles)
  /\ log \in SeqsUpTo(EventRecords, MaxLogEvents)
  /\ store \in {FreshRoot, StaleRoot}
  /\ trace = <<>>
  /\ runs = <<>>

main ==
  /\ Len(runs) < MaxRuns
  /\ \E faults \in Faults :
       Finish("main", faults, main_body(Enter(faults), catalog, log))

process_song_data ==
  /\ Len(runs) < MaxRuns
  /\ \E faults \in Faults :
       Finish("process_song_data", faults,
              process_song_data_body(Enter(faults), catalog))

process_log_data ==
  /\ Len(runs) < MaxRuns
  /\ \E faults \in Faults :
       Finish("process_log_data", faults,
              process_log_data_body(Enter(faults), log))

Next == main \/ process_song_data \/ process_log_data

Spec == Init /\ [][Next]_vars

----------------------------------------------------------------------------
\* Vocabulary of the properties.

Last == runs[Len(runs)]

Events(op) == { i \in 1..Len(trace) : trace[i].op = op }

\* The latest call stored a table at p.
Wrote(p) == \E i \in Events("write") : trace[i].arg = p

\* The destinations the latest call stored a table at, in order.
RECURSIVE WritesOf(_)
WritesOf(t) ==
  IF t = <<>> THEN <<>>
  ELSE IF Head(t).op = "write" THEN <<Head(t).arg>> \o WritesOf(Tail(t))
       ELSE WritesOf(Tail(t))

FiveWrites ==
  <<songs_output_location, artists_output_location, users_output_location,
    time_output_location, songplays_output_location>>

RowSet(t) == { t[i] : i \in 1..Len(t) }

\* The rows the code computes for a destination from the current input.
ComputedTable(p) ==
  CASE p = songs_output_location -> songs_table(catalog)
    [] p = artists_output_location -> artists_table(catalog)
    [] p = users_output_location -> users_table(filter_page(log))

\* The latest call met no failure of the source or of the sink: the input
\* is there, no fault was injected and no destination existed beforehand.
Undisturbed ==
  /\ Last.faults = {}
  /\ catalog # <<>>
  /\ log # <<>>
  /\ Events("rejected") = {}

----------------------------------------------------------------------------
\* C1: running main twice in a row on the same input and output root
\* completes both times and leaves the same rows in every table.
C1_Idempotent ==
  \A i \in 1..(Len(runs) - 1) :
    ( /\ runs[i].entry = "main" /\ runs[i + 1].entry = "main"
      /\ runs[i].faults = {} /\ runs[i + 1].faults = {}
      /\ catalog # <<>> /\ log # <<>> )
    => /\ runs[i].exc = "none"
       /\ runs[i + 1].exc = "none"
       /\ \A p \in OutputPaths :
            /\ runs[i].store[p].exists = runs[i + 1].store[p].exists
            /\ RowSet(runs[i].store[p].rows) = RowSet(runs[i + 1].store[p].rows)

\* C2: every table write the latest call attempted, whatever was stored at
\* the destination before, was not rejected and left exactly the rows
\* computed in this call at the destination.
C2_FullOverwrite ==
  \A i \in Events("attempt") :
    "sink" \notin Last.faults =>
      /\ \A j \in Events("rejected") : trace[j].arg # trace[i].arg
      /\ store[trace[i].arg] = Stored(ComputedTable(trace[i].arg))

\* C3: a call of main either stored all five tables in order, or stopped at
\* the first stage that raised; with no failure of source or sink it
\* stores all five.
C3_AllOrFirstError ==
  (runs # <<>> /\ Last.entry = "main") =>
    /\ \/ Last.exc = "none" /\ WritesOf(trace) = FiveWrites
       \/ /\ Last.exc # "none"
          /\ Events("raise") = {Len(trace)}
    /\ Undisturbed => Last.exc = "none" /\ WritesOf(trace) = FiveWrites

\* C4: the songs table read back for the plays-fact stage is the one
\* process_song_data stored in the same call of main: the read is of the
\* songs destination and of nothing else.
C4_ReadsBackSongs ==
  (runs # <<>> /\ Last.entry = "main" /\ Wrote(songs_output_location)) =>
    /\ song_df_paths = {songs_output_location}
    /\ song_df(store) =
         [exc |-> "none", rows |-> store[songs_output_location].rows]

\* C5: within one call every destination is written at most once, the five
\* destinations are pairwise distinct, songs and artists are written only
\* by process_song_data and users, time and songplays only by
\* process_log_data.
C5_SingleWriter ==
  /\ Cardinality(OutputPaths) = 5
  /\ \A i, j \in Events("attempt") : trace[i].arg = trace[j].arg => i = j
  /\ \A i \in Events("attempt") \cup Events("write") :
       /\ trace[i].arg \in {songs_output_location, artists_output_location}
            => trace[i].fn = "process_song_data"
       /\ trace[i].arg \in {users_output_location, time_output_location,
                            songplays_output_location}
            => trace[i].fn = "process_log_data"

\* A call in which process_log_data stored the users table while the songs
\* table stored by process_song_data is at its destination.
C5_Witness ==
  /\ Wrote(users_output_location)
  /\ store[songs_output_location] = Stored(songs_table(catalog))

\* Line 99: the timestamp derived from the epoch milliseconds of an event.
start_time(ts) == ts \div 1000

\* The row of the table at p comes from the event e.
DerivedFrom(p, row, e) ==
  CASE p = users_output_location ->
         row = [c \in UsersColumns |-> e[c]]
    [] p = time_output_location ->
         row["start_time"] = start_time(e.ts)
    [] p = songplays_output_location ->
         /\ row["start_time"] = start_time(e.ts)
         /\ \A c \in {"userId", "level", "sessionId", "location", "userAgent"} :
              row[c] = e[c]

\* C6: every row of a users, time or songplays table the code stored comes
\* from an input event whose page is "NextSong".
C6_FilterInvariant ==
  \A p \in {users_output_location, time_output_location,
            songplays_output_location} :
    Wrote(p) =>
      \A k \in 1..Len(store[p].rows) :
        \E i \in 1..Len(log) :
          /\ log[i].page = "NextSong"
          /\ DerivedFrom(p, store[p].rows[k], log[i])

\* The users table was stored from a log that holds an event of another
\* page.
C6_Witness ==
  /\ Wrote(users_output_location)
  /\ store[users_output_location].rows # <<>>
  /\ \E i \in 1..Len(log) : log[i].page # "NextSong"

KeyOf(p) ==
  CASE p = songs_output_location -> "song_id"
    [] p = artists_output_location -> "artist_id"
    [] p = time_output_location -> "start_time"

\* C7: no two rows of a stored songs table share a song_id, of a stored
\* artists table an artist_id, of a stored time table a start_time.
C7_KeyUnique ==
  \A p \in {songs_output_location, artists_output_location,
            time_output_location} :
    Wrote(p) =>
      \A i, j \in 1..Len(store[p].rows) :
        store[p].rows[i][KeyOf(p)] = store[p].rows[j][KeyOf(p)] => i = j

\* C8: no stored table holds two rows equal on all columns.
C8_Dedup ==
  \A p \in OutputPaths :
    store[p].exists =>
      \A i, j \in 1..Len(store[p].rows) :
        store[p].rows[i] = store[p].rows[j] => i = j

\* A songs table stored from a catalog that holds the same record twice.
C8_Witness ==
  /\ Wrote(songs_output_location)
  /\ Len(catalog) = 2
  /\ catalog[1] = catalog[2]
  /\ Len(store[songs_output_location].rows) = 1

\* C9: once process_song_data has finished, every artist_id of the stored
\* songs table is the artist_id of a row of the stored artists table.
C9_ReferentialPresence ==
  ( /\ runs # <<>>
    /\ Last.entry \in {"process_song_data", "main"}
    /\ Wrote(songs_output_location) )
  => \A i \in 1..Len(store[songs_output_location].rows) :
       /\ store[artists_output_location].exists
       /\ \E j \in 1..Len(store[artists_output_location].rows) :
            store[artists_output_location].rows[j]["artist_id"]
              = store[songs_output_location].rows[i]["artist_id"]

====
